---- MODULE Spec2Model ----
(***************************************************************************)
(* Model of the classification-routing-reasoning pipeline of the           *)
(* financial-assistance backend: GeminiService (classifier, advice),       *)
(* PineconeService (semantic index) and FinancialService (router and the   *)
(* three handlers) over the SQL ledger (financial_records, user_balances). *)
(*                                                                         *)
(* Conventions.  A Python Optional is a sequence: <<>> is None, <<v>> is   *)
(* the value v.  A text is a sequence of one-character strings.  A money   *)
(* amount (a Python float) is an integer number of hundredths, so 18000.50 *)
(* is 1800050; the texts used keep at most two decimals.  A datetime is an *)
(* integer tick of the clock `now`.                                        *)
(***************************************************************************)
EXTENDS Integers, Sequences, FiniteSets, TLC

VARIABLES
    records,    \* table financial_records: sequence of FinancialRecord rows
    balances,   \* table user_balances: function user_id -> current_balance
    index,      \* the Pinecone index: function vector_id -> metadata
    now,        \* datetime.utcnow()
    ncalls,     \* number of process_input calls made so far
    call,       \* the last process_input call: its inputs and its outcome
    commits,    \* per user, number of balance updates whose commit succeeded
    sessions    \* the requests in flight at the same time, each with its own
                \* database session (none when requests run one at a time)

vars == <<records, balances, index, now, ncalls, call, commits, sessions>>

None == <<>>
Some(v) == <<v>>

\* ----------------------------------------------------------------- bounds
MaxCalls == 2       \* process_input calls in one behaviour
MaxNow == 2         \* the clock runs over 1..MaxNow
MaxFragments == 3   \* fragments in a text of the classifier specification
MaxSessions == 2    \* requests served at the same time

\* ------------------------------------------------------------------ texts
Upper == <<"A", "B", "C", "D", "E", "F", "G", "H", "I", "J", "K", "L", "M",
           "N", "O", "P", "Q", "R", "S", "T", "U", "V", "W", "X", "Y", "Z">>
Lower == <<"a", "b", "c", "d", "e", "f", "g", "h", "i", "j", "k", "l", "m",
           "n", "o", "p", "q", "r", "s", "t", "u", "v", "w", "x", "y", "z">>
Digits == <<"0", "1", "2", "3", "4", "5", "6", "7", "8", "9">>

IsDigit(c) == \E i \in 1..10 : Digits[i] = c
DigitValue(c) == (CHOOSE i \in 1..10 : Digits[i] = c) - 1

\* str.lower(), character by character
LowerChar(c) ==
    IF \E i \in 1..26 : Upper[i] = c
    THEN Lower[CHOOSE i \in 1..26 : Upper[i] = c]
    ELSE c
lower(text) == [i \in 1..Len(text) |-> LowerChar(text[i])]

\* `word in text`: substring search
Contains(text, word) ==
    \E i \in 1..(Len(text) - Len(word) + 1) :
        SubSeq(text, i, i + Len(word) - 1) = word

\* text.replace(',', '')
RECURSIVE StripCommas(_)
StripCommas(text) ==
    IF text = <<>> THEN <<>>
    ELSE IF Head(text) = "," THEN StripCommas(Tail(text))
    ELSE <<Head(text)>> \o StripCommas(Tail(text))

\* end of the maximal run of digits of s starting at i (s[i] is a digit)
RECURSIVE DigitRunEnd(_, _)
DigitRunEnd(s, i) ==
    IF i + 1 <= Len(s) /\ IsDigit(s[i + 1]) THEN DigitRunEnd(s, i + 1) ELSE i

\* end of the match of \d+(?:\.\d+)? that starts at i
MatchEnd(s, i) ==
    LET e == DigitRunEnd(s, i)
    IN  IF e + 2 <= Len(s) /\ s[e + 1] = "." /\ IsDigit(s[e + 2])
        THEN DigitRunEnd(s, e + 2)
        ELSE e

\* re.findall: the non-overlapping matches, left to right
RECURSIVE FindAll(_, _)
FindAll(s, i) ==
    IF i > Len(s) THEN <<>>
    ELSE IF IsDigit(s[i])
         THEN <<SubSeq(s, i, MatchEnd(s, i))>> \o FindAll(s, MatchEnd(s, i) + 1)
         ELSE FindAll(s, i + 1)

RECURSIVE DigitsValue(_)
DigitsValue(ds) ==
    IF ds = <<>> THEN 0
    ELSE 10 * DigitsValue(SubSeq(ds, 1, Len(ds) - 1)) + DigitValue(ds[Len(ds)])

\* float(m) of a match m, in hundredths
ToFloat(m) ==
    LET dot == IF \E i \in 1..Len(m) : m[i] = "."
               THEN CHOOSE i \in 1..Len(m) : m[i] = "."
               ELSE Len(m) + 1
        whole == SubSeq(m, 1, dot - 1)
        frac == SubSeq(m, dot + 1, Len(m))
        cents == IF Len(frac) = 0 THEN 0
                 ELSE IF Len(frac) = 1 THEN 10 * DigitValue(frac[1])
                 ELSE 10 * DigitValue(frac[1]) + DigitValue(frac[2])
    IN  100 * DigitsValue(whole) + cents

\* GeminiService._extract_amount
_extract_amount(text) ==
    LET numbers == FindAll(StripCommas(text), 1)
    IN  IF numbers # <<>> THEN ToFloat(numbers[Len(numbers)]) ELSE 0

\* -------------------------------------------------------- classification
FINANCIAL_COMMITMENT == "FINANCIAL_COMMITMENT"
BALANCE_UPDATE == "BALANCE_UPDATE"
QUESTION == "QUESTION"
InputType == {FINANCIAL_COMMITMENT, BALANCE_UPDATE, QUESTION}

BalanceWords == {<<"b", "a", "l", "a", "n", "c", "e">>, <<"h", "a", "v", "e">>,
                 <<"n", "o", "w">>, <<"c", "u", "r", "r", "e", "n", "t">>}
QuestionWords == {<<"c", "a", "n", " ", "i">>,
                  <<"s", "h", "o", "u", "l", "d", " ", "i">>,
                  <<"a", "f", "f", "o", "r", "d">>, <<"?">>,
                  <<"h", "o", "w", " ", "m", "u", "c", "h">>}

\* the extracted_data dict: every key the handlers read, absent keys None
NoData == [description |-> None, amount |-> None, date |-> None,
           balance |-> None, question |-> None, target_amount |-> None]

ClassifiedInput(input_type, confidence, extracted_data) ==
    [input_type |-> input_type, confidence |-> confidence,
     extracted_data |-> extracted_data]

\* the keyword checks of _fallback_classification, in the order it makes them
\* (FallbackKindQuestionFirst: the two checks swapped)
FallbackKindQuestionFirst(text_lower) ==
    IF \E word \in QuestionWords : Contains(text_lower, word) THEN QUESTION
    ELSE IF \E word \in BalanceWords : Contains(text_lower, word)
    THEN BALANCE_UPDATE
    ELSE FINANCIAL_COMMITMENT
FallbackKind(text_lower) ==
    IF \E word \in BalanceWords : Contains(text_lower, word) THEN BALANCE_UPDATE
    ELSE IF \E word \in QuestionWords : Contains(text_lower, word) THEN QUESTION
    ELSE FINANCIAL_COMMITMENT

\* GeminiService._fallback_classification (confidence in hundredths)
\* (_fallback_classificationTargetOrNone: the question payload built with
\* `amount if amount else None`)
_fallback_classificationTargetOrNone(text) ==
    LET text_lower == lower(text)
        amount == _extract_amount(text)
        kind == FallbackKind(text_lower)
    IN  IF kind = BALANCE_UPDATE
        THEN ClassifiedInput(BALANCE_UPDATE, 70,
                 [NoData EXCEPT !.balance = Some(IF amount # 0 THEN amount ELSE 0)])
        ELSE IF kind = QUESTION
        THEN ClassifiedInput(QUESTION, 70,
                 [NoData EXCEPT !.question = Some(text),
                                !.target_amount =
                                    IF amount # 0 THEN Some(amount) ELSE None])
        ELSE ClassifiedInput(FINANCIAL_COMMITMENT, 60,
                 [NoData EXCEPT !.description = Some(text),
                                !.amount = Some(IF amount # 0 THEN amount ELSE 0),
                                !.date = None])
_fallback_classification(text) ==
    LET text_lower == lower(text)
        amount == _extract_amount(text)
        kind == FallbackKind(text_lower)
    IN  IF kind = BALANCE_UPDATE
        THEN ClassifiedInput(BALANCE_UPDATE, 70,
                 [NoData EXCEPT !.balance = Some(IF amount # 0 THEN amount ELSE 0)])
        ELSE IF kind = QUESTION
        THEN ClassifiedInput(QUESTION, 70,
                 [NoData EXCEPT !.question = Some(text),
                                !.target_amount = Some(amount)])
        ELSE ClassifiedInput(FINANCIAL_COMMITMENT, 60,
                 [NoData EXCEPT !.description = Some(text),
                                !.amount = Some(IF amount # 0 THEN amount ELSE 0),
                                !.date = None])

\* What the generative backend answers to the classification prompt:
\* it raises, or its text holds no parsable JSON, or the JSON object `json`.
\* A JSON value of the wrong type is modelled as an absent one.
LLMRaises == [tag |-> "raises", json |-> None]
LLMUnparsable == [tag |-> "unparsable", json |-> None]
LLMJson(input_type, confidence, extracted_data) ==
    [tag |-> "json",
     json |-> Some([input_type |-> input_type, confidence |-> confidence,
                    extracted_data |-> extracted_data])]

\* ClassifiedInput(**result) passes pydantic validation
ValidClassifiedInput(j) ==
    /\ j.input_type \in InputType
    /\ j.confidence # None
    /\ j.extracted_data # None

\* the primary path of classify_and_extract raised
PrimaryFails(response) ==
    \/ response.tag # "json"
    \/ ~ValidClassifiedInput(response.json[1])

\* GeminiService.classify_and_extract
classify_and_extract(text, response) ==
    IF PrimaryFails(response)
    THEN _fallback_classification(text)
    ELSE LET j == response.json[1]
         IN  ClassifiedInput(j.input_type, j.confidence[1], j.extracted_data[1])

\* ------------------------------------------------------------ the stores
Users == {"u1", "u2"}

\* a row of financial_records (created_at/updated_at are not modelled: ids
\* are assigned in creation order and no handler reads the timestamps)
FinancialRecord(id, user_id, input_type, description, amount, commitment_date, balance, question_text, raw_input) ==
    [id |-> id, user_id |-> user_id, input_type |-> input_type,
     description |-> description, amount |-> amount,
     commitment_date |-> commitment_date, balance |-> balance,
     question_text |-> question_text, raw_input |-> raw_input,
     vector_id |-> None]

\* the stores a handler works on
Stores(r, b, i) == [records |-> r, balances |-> b, index |-> i]

\* the autoincrement primary key of the next inserted row
NextId(recs) == Len(recs) + 1

\* db.query(UserBalance).filter(user_id == user_id).first(), then
\* `user_balance.current_balance if user_balance else 0.0`
\* (ReadBalanceFirstRow: the query without its filter)
ReadBalanceFirstRow(bal, user_id) ==
    IF DOMAIN bal # {} THEN bal[CHOOSE u \in DOMAIN bal : TRUE] ELSE 0
ReadBalance(bal, user_id) ==
    IF user_id \in DOMAIN bal THEN bal[user_id] ELSE 0

\* the upsert of the balance handler: overwrite the row, or create it
\* (UpsertBalanceInsertOnly: an existing row is left as it is)
UpsertBalanceInsertOnly(bal, user_id, balance) ==
    IF user_id \in DOMAIN bal THEN bal
    ELSE [u \in DOMAIN bal \cup {user_id} |->
             IF u = user_id THEN balance ELSE bal[u]]
UpsertBalance(bal, user_id, balance) ==
    [u \in DOMAIN bal \cup {user_id} |->
        IF u = user_id THEN balance ELSE bal[u]]

\* ------------------------------------------------------- PineconeService
TopK == 3

\* f"{user_id}_{commitment_id}"
VectorId(user_id, commitment_id) == <<user_id, commitment_id>>

\* index.upsert of store_commitment: one entry under vector_id
\* (store_commitmentWithoutUpsert: the key returned, nothing upserted)
store_commitmentWithoutUpsert(idx, user_id, commitment_id, description, amount, date) ==
    idx
store_commitment(idx, user_id, commitment_id, description, amount, date) ==
    LET vector_id == VectorId(user_id, commitment_id)
        metadata == [user_id |-> user_id, commitment_id |-> commitment_id,
                     description |-> description, amount |-> amount,
                     date |-> date, type |-> "commitment"]
    IN  [k \in DOMAIN idx \cup {vector_id} |->
            IF k = vector_id THEN metadata ELSE idx[k]]

\* what index.query may return for a user: at most top_k of the user's entries
QueryMatches(idx, user_id, top_k) ==
    {m \in SUBSET {k \in DOMAIN idx : idx[k].user_id = user_id} :
        Cardinality(m) <= top_k}

\* the list query_relevant_commitments builds from the matches
query_relevant_commitments(idx, matches) ==
    {[id |-> k, description |-> idx[k].description, amount |-> idx[k].amount,
      date |-> idx[k].date] : k \in matches}

\* --------------------------------------------------------------- results
Raised(error) ==
    [raised |-> TRUE, error |-> error, success |-> FALSE, message |-> "",
     data |-> None, advice |-> None]
ProcessedResult(success, message, data, advice) ==
    [raised |-> FALSE, error |-> "", success |-> success, message |-> message,
     data |-> data, advice |-> advice]

\* what a handler leaves behind: the stores, its result, and whether its
\* ledger transaction committed
Outcome(db, result, committed) ==
    [db |-> db, result |-> result, committed |-> committed]

\* the environment of one call:
\*   storage   "ok"; "commit_fails": a statement up to the handler's first
\*             db.commit() raises, the transaction is rolled back;
\*             "refresh_fails": db.refresh(record) raises after that commit;
\*             "commit2_fails": the commit of vector_id raises and is caught;
\*             "commit2_fails_raises": the same, and reading record.id from
\*             the rolled-back session then raises
\*   mirror    "fails": store_commitment raises (embedding or upsert), the
\*             index unchanged
\*   query     what index.query returns, None when the query raises
\*   advice    "fails": the advice backend raises
\*   upcoming  the rows of the upcoming-commitments query, in the order the
\*             database returns them
DefaultEnv == [storage |-> "ok", mirror |-> "ok", query |-> Some({}),
               advice |-> "ok", upcoming |-> <<>>]

\* ---------------------------------------------------- pydantic validation
\* CommitmentData(**data): description: str, amount: float = Field(gt=0)
\* (ValidCommitmentDataAllowsZero: ge=0 in place of gt=0)
ValidCommitmentDataAllowsZero(data) ==
    /\ data.description # None
    /\ data.amount # None
    /\ data.amount[1] >= 0
ValidCommitmentData(data) ==
    /\ data.description # None
    /\ data.amount # None
    /\ data.amount[1] > 0

\* BalanceData(**data): balance: float = Field(ge=0)
ValidBalanceData(data) ==
    /\ data.balance # None
    /\ data.balance[1] >= 0

\* QuestionData(**data): question: str, target_amount: Optional[float]
ValidQuestionData(data) == data.question # None

\* ------------------------------------------------------ advice generator
RECURSIVE SumAmounts(_)
SumAmounts(commitments) ==
    IF commitments = <<>> THEN 0
    ELSE Head(commitments).amount + SumAmounts(Tail(commitments))

\* the condition of the fallback advice:
\* `if target_amount and target_amount > available_funds`
FallbackWaits(target_amount, available_funds) ==
    /\ target_amount # None
    /\ target_amount[1] # 0
    /\ target_amount[1] > available_funds

\* GeminiService.generate_advice.  The advice string is modelled by its
\* kind ("generated" by the backend, or the fallback's "wait"/"affordable"
\* template) and the numbers it is computed from.
generate_advice(question, current_balance, upcoming_commitments, target_amount, backend) ==
    LET total_commitments == SumAmounts(upcoming_commitments)
        available_funds == current_balance - total_commitments
        verdict == IF backend = "ok" THEN "generated"
                   ELSE IF FallbackWaits(target_amount, available_funds)
                   THEN "wait"
                   ELSE "affordable"
    IN  [verdict |-> verdict, question |-> question,
         current_balance |-> current_balance,
         total_commitments |-> total_commitments,
         available_funds |-> available_funds,
         target_amount |-> target_amount]

\* --------------------------------------------------------------- handlers
\* the rows the upcoming-commitments query selects
\* (IsUpcomingStrictlyLater: `>` in place of `>=`)
IsUpcomingStrictlyLater(r, user_id, t) ==
    /\ r.user_id = user_id
    /\ r.input_type = FINANCIAL_COMMITMENT
    /\ r.commitment_date # None
    /\ r.commitment_date[1] > t
IsUpcoming(r, user_id, t) ==
    /\ r.user_id = user_id
    /\ r.input_type = FINANCIAL_COMMITMENT
    /\ r.commitment_date # None
    /\ r.commitment_date[1] >= t

UpcomingLimit == 10

\* order_by(commitment_date).limit(k): every order SQL may return, rows of
\* equal date in any order
RECURSIVE OrderedByDate(_, _, _)
OrderedByDate(recs, ids, k) ==
    IF k = 0 \/ ids = {} THEN {<<>>}
    ELSE LET first == {i \in ids : \A j \in ids :
                          recs[i].commitment_date[1] <= recs[j].commitment_date[1]}
         IN  UNION {{<<i>> \o rest : rest \in OrderedByDate(recs, ids \ {i}, k - 1)} :
                    i \in first}

UpcomingChoices(recs, user_id, t) ==
    OrderedByDate(recs, {i \in 1..Len(recs) : IsUpcoming(recs[i], user_id, t)},
                  UpcomingLimit)

\* upcoming_list, from the rows the query returned
UpcomingList(recs, upcoming) ==
    [n \in 1..Len(upcoming) |->
        [description |-> recs[upcoming[n]].description,
         amount |-> recs[upcoming[n]].amount[1],
         date |-> recs[upcoming[n]].commitment_date]]

\* the try/except around store_commitment and the vector_id commit: a
\* failed mirroring (mirrored = FALSE) is logged and the handler goes on
\* (MirrorOutcomePropagates: without the except clause)
MirrorOutcomePropagates(mirrored, onSuccess, onFailure) ==
    IF mirrored THEN onSuccess
    ELSE Outcome(onFailure.db, Raised("MirrorError"), TRUE)
MirrorOutcome(mirrored, onSuccess, onFailure) ==
    IF mirrored THEN onSuccess ELSE onFailure

\* FinancialService._handle_commitment
_handle_commitment(db, user_id, raw_input, data, env) ==
    IF ~ValidCommitmentData(data)
    THEN Outcome(db, Raised("ValidationError"), FALSE)
    ELSE IF env.storage = "commit_fails"
    THEN Outcome(db, Raised("StorageError"), FALSE)
    ELSE
    LET id == NextId(db.records)
        record == FinancialRecord(id, user_id, FINANCIAL_COMMITMENT,
                      data.description, data.amount, data.date, None, None,
                      raw_input)
        db1 == [db EXCEPT !.records = Append(@, record)]
        vector_id == VectorId(user_id, id)
        db2 == [db1 EXCEPT !.index = store_commitment(@, user_id, id,
                               data.description[1], data.amount[1], data.date)]
        db3 == [db2 EXCEPT !.records[id].vector_id = Some(vector_id)]
        result == ProcessedResult(TRUE, "Added commitment",
                      Some([id |-> id, description |-> data.description[1],
                            amount |-> data.amount[1], date |-> data.date]),
                      None)
    IN  IF env.storage = "refresh_fails"
        THEN Outcome(db1, Raised("StorageError"), TRUE)
        ELSE MirrorOutcome(env.mirror = "ok",
                 IF env.storage = "commit2_fails"
                 THEN Outcome(db2, result, TRUE)
                 ELSE IF env.storage = "commit2_fails_raises"
                 THEN Outcome(db2, Raised("StorageError"), TRUE)
                 ELSE Outcome(db3, result, TRUE),
                 Outcome(db1, result, TRUE))

\* the one transaction of the balance handler: db.add(record), the upsert
\* of the UserBalance row, db.commit()
\* (BalanceTransactionEventOnly: the event committed without the balance row)
BalanceTransactionEventOnly(db, record, user_id, balance) ==
    [db EXCEPT !.records = Append(@, record)]
BalanceTransaction(db, record, user_id, balance) ==
    [db EXCEPT !.records = Append(@, record),
               !.balances = UpsertBalance(@, user_id, balance)]

\* FinancialService._handle_balance_update
_handle_balance_update(db, user_id, raw_input, data, env) ==
    IF ~ValidBalanceData(data)
    THEN Outcome(db, Raised("ValidationError"), FALSE)
    ELSE IF env.storage = "commit_fails"
    THEN Outcome(db, Raised("StorageError"), FALSE)
    ELSE
    LET id == NextId(db.records)
        record == FinancialRecord(id, user_id, BALANCE_UPDATE, None, None, None,
                      data.balance, None, raw_input)
        db1 == BalanceTransaction(db, record, user_id, data.balance[1])
    IN  IF env.storage = "refresh_fails"
        THEN Outcome(db1, Raised("StorageError"), TRUE)
        ELSE Outcome(db1,
                 ProcessedResult(TRUE, "Balance updated",
                     Some([id |-> id, balance |-> data.balance[1]]), None),
                 TRUE)

\* the try/except around query_relevant_commitments: a failed query (None)
\* becomes the empty list
\* (CaughtQueryPropagates: without the except clause)
CaughtQueryPropagates(idx, query) ==
    IF query = None THEN None ELSE Some(query_relevant_commitments(idx, query[1]))
CaughtQuery(idx, query) ==
    IF query = None THEN Some({}) ELSE Some(query_relevant_commitments(idx, query[1]))

RECURSIVE SeqOfSet(_)
SeqOfSet(S) ==
    IF S = {} THEN <<>>
    ELSE LET x == CHOOSE y \in S : TRUE IN <<x>> \o SeqOfSet(S \ {x})

\* the arguments _handle_question passes to generate_advice: the balance and
\* upcoming_list, never relevant_commitments
\* (AdviceArgumentsWithRelevant: the index matches added to the commitments)
AdviceArgumentsWithRelevant(current_balance, upcoming_list, relevant) ==
    [current_balance |-> current_balance,
     upcoming_commitments |-> upcoming_list \o SeqOfSet(relevant)]
AdviceArguments(current_balance, upcoming_list, relevant) ==
    [current_balance |-> current_balance,
     upcoming_commitments |-> upcoming_list]

\* FinancialService._handle_question, at time t
_handle_question(db, user_id, raw_input, data, env, t) ==
    IF ~ValidQuestionData(data)
    THEN Outcome(db, Raised("ValidationError"), FALSE)
    ELSE
    LET current_balance == ReadBalance(db.balances, user_id)
        upcoming_list == UpcomingList(db.records, env.upcoming)
        caught == CaughtQuery(db.index, env.query)
        relevant_commitments == caught[1]
        args == AdviceArguments(current_balance, upcoming_list,
                                relevant_commitments)
        advice == generate_advice(data.question[1], args.current_balance,
                      args.upcoming_commitments, data.target_amount, env.advice)
        id == NextId(db.records)
        record == FinancialRecord(id, user_id, QUESTION, None, None, None, None,
                      data.question, raw_input)
        db1 == [db EXCEPT !.records = Append(@, record)]
    IN  IF caught = None   \* an exception that left the try block propagates
        THEN Outcome(db, Raised("QueryError"), FALSE)
        ELSE IF env.storage = "commit_fails"
        THEN Outcome(db, Raised("StorageError"), FALSE)
        ELSE IF env.storage = "refresh_fails"
        THEN Outcome(db1, Raised("StorageError"), TRUE)
        ELSE Outcome(db1,
                 ProcessedResult(TRUE, "Question answered",
                     Some([id |-> id, question |-> data.question[1],
                           current_balance |-> current_balance,
                           upcoming_commitments_count |-> Len(upcoming_list),
                           relevant_commitments_from_vector_db |->
                               Cardinality(relevant_commitments)]),
                     Some(advice)),
                 TRUE)

\* GET /history/{user_id}: the ids of the user's rows, most recent first
HistoryLimit == 50
RECURSIVE MostRecentFirst(_, _, _)
MostRecentFirst(recs, user_id, i) ==
    IF i = 0 THEN <<>>
    ELSE IF recs[i].user_id = user_id
         THEN <<recs[i].id>> \o MostRecentFirst(recs, user_id, i - 1)
         ELSE MostRecentFirst(recs, user_id, i - 1)
get_user_history(recs, user_id, limit) ==
    LET all == MostRecentFirst(recs, user_id, Len(recs))
    IN  SubSeq(all, 1, IF Len(all) < limit THEN Len(all) ELSE limit)

\* the routing of process_input, given the classification
\* (RouteQuestionToCommitment: questions sent to the commitment handler)
RouteQuestionToCommitment(db, user_id, text, classification, env, t) ==
    IF classification.input_type \in {FINANCIAL_COMMITMENT, QUESTION}
    THEN _handle_commitment(db, user_id, text, classification.extracted_data, env)
    ELSE IF classification.input_type = BALANCE_UPDATE
    THEN _handle_balance_update(db, user_id, text, classification.extracted_data,
                                env)
    ELSE Outcome(db, ProcessedResult(FALSE, "Unable to classify input", None, None),
                 FALSE)
Route(db, user_id, text, classification, env, t) ==
    IF classification.input_type = FINANCIAL_COMMITMENT
    THEN _handle_commitment(db, user_id, text, classification.extracted_data, env)
    ELSE IF classification.input_type = BALANCE_UPDATE
    THEN _handle_balance_update(db, user_id, text, classification.extracted_data,
                                env)
    ELSE IF classification.input_type = QUESTION
    THEN _handle_question(db, user_id, text, classification.extracted_data, env, t)
    ELSE Outcome(db, ProcessedResult(FALSE, "Unable to classify input", None, None),
                 FALSE)

\* FinancialService.process_input
process_input(db, user_id, text, response, env, t) ==
    Route(db, user_id, text, classify_and_extract(text, response), env, t)

\* ----------------------------------------------------------------- inputs
T_balance == <<"b", "a", "l", "a", "n", "c", "e", " ", "2", "0">>
T_rent15 == <<"r", "e", "n", "t", " ", "1", "5">>
T_rent == <<"r", "e", "n", "t">>
T_afford30 == <<"a", "f", "f", "o", "r", "d", " ", "3", "0", "?">>
T_afford == <<"a", "f", "f", "o", "r", "d", " ", "i", "t">>
T_x == <<"x">>

Commitment(description, amount, date) ==
    [NoData EXCEPT !.description = description, !.amount = amount, !.date = date]
Balance(balance) == [NoData EXCEPT !.balance = balance]
Question(question, target_amount) ==
    [NoData EXCEPT !.question = question, !.target_amount = target_amount]

\* the requests of the model: a text and what the classification backend
\* answers to it
Scenarios ==
    { <<T_balance, LLMRaises>>,
      <<T_rent15, LLMRaises>>,
      <<T_rent, LLMUnparsable>>,
      <<T_afford30, LLMRaises>>,
      <<T_afford, LLMRaises>>,
      <<T_balance, LLMJson("OTHER", Some(90), Some(NoData))>>,
      <<T_x, LLMJson(FINANCIAL_COMMITMENT, Some(90),
                     Some(Commitment(Some(<<"d">>), Some(2500), Some(2))))>>,
      <<T_x, LLMJson(FINANCIAL_COMMITMENT, Some(90),
                     Some(Commitment(Some(<<"e">>), Some(1000), Some(1))))>>,
      <<T_x, LLMJson(FINANCIAL_COMMITMENT, Some(90),
                     Some(Commitment(Some(<<"d">>), Some(-500), None)))>>,
      <<T_x, LLMJson(BALANCE_UPDATE, Some(90), Some(Balance(Some(1000))))>>,
      <<T_x, LLMJson(BALANCE_UPDATE, Some(90), Some(Balance(Some(-1000))))>>,
      <<T_x, LLMJson(QUESTION, Some(90),
                     Some([description |-> Some(<<"d">>), amount |-> Some(2500),
                           date |-> Some(2), balance |-> Some(1000),
                           question |-> Some(<<"q">>),
                           target_amount |-> None]))>>,
      <<T_x, LLMJson(QUESTION, Some(90), Some(Question(None, Some(500))))>> }

\* the environments a call can meet, given what it will do
Envs(db, user_id, classification, t) ==
    LET data == classification.extracted_data
        kind == classification.input_type
    IN  IF kind = FINANCIAL_COMMITMENT /\ ValidCommitmentData(data)
        THEN {[DefaultEnv EXCEPT !.storage = s] :
                 s \in {"ok", "commit_fails", "refresh_fails", "commit2_fails",
                        "commit2_fails_raises"}}
             \cup {[DefaultEnv EXCEPT !.mirror = "fails"]}
        ELSE IF kind = BALANCE_UPDATE /\ ValidBalanceData(data)
        THEN {[DefaultEnv EXCEPT !.storage = s] :
                 s \in {"ok", "commit_fails", "refresh_fails"}}
        ELSE IF kind = QUESTION /\ ValidQuestionData(data)
        THEN {[storage |-> s, mirror |-> "ok", query |-> q, advice |-> a,
               upcoming |-> up] :
                 s \in {"ok"},
                 q \in {None} \cup {Some(m) : m \in QueryMatches(db.index, user_id, TopK)},
                 a \in {"ok", "fails"},
                 up \in UpcomingChoices(db.records, user_id, t)}
             \cup {[DefaultEnv EXCEPT !.storage = s, !.upcoming = up] :
                      s \in {"commit_fails", "refresh_fails"},
                      up \in UpcomingChoices(db.records, user_id, t)}
        ELSE {DefaultEnv}

\* ------------------------------------------------------ the state machine
NoCall ==
    [user_id |-> "", text |-> <<>>, primary_failed |-> FALSE,
     classification |-> ClassifiedInput("", 0, NoData), env |-> DefaultEnv,
     result |-> ProcessedResult(FALSE, "", None, None)]

Init ==
    /\ records = <<>>
    /\ balances = <<>>
    /\ index = <<>>
    /\ now = 1
    /\ ncalls = 0
    /\ call = NoCall
    /\ commits = [u \in Users |-> 0]
    /\ sessions = <<>>

\* the requests with classify_and_extract's answer to each (step 1 of
\* process_input, evaluated once per request)
Requests ==
    {[text |-> s[1], response |-> s[2],
      classification |-> classify_and_extract(s[1], s[2])] : s \in Scenarios}

\* one request: POST /process -> FinancialService.process_input, which
\* classifies (req.classification) and routes (step 2); an exception becomes
\* the HTTP 500 of the endpoint
ProcessInput(user_id, req) ==
    /\ ncalls < MaxCalls
    /\ LET db == Stores(records, balances, index)
       IN  \E env \in Envs(db, user_id, req.classification, now) :
             LET out == Route(db, user_id, req.text, req.classification, env, now)
             IN  /\ records' = out.db.records
                 /\ balances' = out.db.balances
                 /\ index' = out.db.index
                 /\ call' = [user_id |-> user_id, text |-> req.text,
                             primary_failed |-> PrimaryFails(req.response),
                             classification |-> req.classification, env |-> env,
                             result |-> out.result]
                 /\ commits' = IF req.classification.input_type = BALANCE_UPDATE
                                   /\ out.committed
                                THEN [commits EXCEPT ![user_id] = @ + 1]
                                ELSE commits
    /\ ncalls' = ncalls + 1
    /\ UNCHANGED <<now, sessions>>

\* time passes between requests
Tick ==
    /\ now < MaxNow
    /\ now' = now + 1
    /\ UNCHANGED <<records, balances, index, ncalls, call, commits, sessions>>

Next ==
    \/ \E user_id \in Users, req \in Requests : ProcessInput(user_id, req)
    \/ Tick

Spec == Init /\ [][Next]_vars

\* ------------------------------------- the classifier, on bounded texts
Fragments ==
    { <<"b", "a", "l", "a", "n", "c", "e">>, <<"H", "a", "v", "e">>, <<"k">>,
      <<"n", "o", "w">>, <<"c", "u", "r", "r", "e", "n", "t">>,
      <<"c", "a", "n", " ", "i">>, <<"S", "h", "o", "u", "l", "d", " ", "I">>,
      <<"a", "f", "f", "o", "r", "d">>, <<"?">>,
      <<"h", "o", "w", " ", "m", "u", "c", "h">>, <<"r", "e", "n", "t">>,
      <<"5">> }

\* the texts made of at most n fragments
RECURSIVE TextsOf(_)
TextsOf(n) ==
    IF n = 0 THEN {<<>>}
    ELSE LET shorter == TextsOf(n - 1)
         IN  shorter \cup {f \o t : f \in Fragments, t \in shorter}

FragmentTexts == TextsOf(MaxFragments)

ClassifierResponses ==
    { LLMRaises, LLMUnparsable,
      LLMJson("OTHER", Some(90), Some(NoData)),
      LLMJson(QUESTION, None, Some(Question(Some(<<"q">>), None))),
      LLMJson(BALANCE_UPDATE, Some(90), None),
      LLMJson(QUESTION, Some(90), Some(Question(Some(<<"q">>), None))) }

InitClassifier ==
    /\ records = <<>>
    /\ balances = <<>>
    /\ index = <<>>
    /\ now = 1
    /\ ncalls = 0
    /\ call \in {[NoCall EXCEPT !.text = text] : text \in FragmentTexts}
    /\ commits = [u \in Users |-> 0]
    /\ sessions = <<>>

\* GeminiService.classify_and_extract applied to the pending text
Classify(response) ==
    /\ ncalls = 0
    /\ call' = [call EXCEPT !.primary_failed = PrimaryFails(response),
                            !.classification =
                                classify_and_extract(call.text, response)]
    /\ ncalls' = 1
    /\ UNCHANGED <<records, balances, index, now, commits, sessions>>

NextClassifier == \E response \in ClassifierResponses : Classify(response)

SpecClassifier == InitClassifier /\ [][NextClassifier]_vars

\* ------------------------- concurrent balance updates, one session each
\* Requests served at the same time run _handle_balance_update in separate
\* database sessions over the PostgreSQL ledger (READ COMMITTED): a session
\* reads committed rows only, its own writes become visible at its commit,
\* and a write to a user_balances key another open transaction has written
\* waits for that transaction to end.
BalanceAmounts == {1000, 2500}

\* a request that has not started its handler yet
NewSession(user_id, balance) ==
    [user_id |-> user_id, balance |-> balance, pc |-> "start", id |-> 0,
     user_balance |-> None, order |-> 0,
     result |-> ProcessedResult(FALSE, "", None, None)]

\* the ledger before the requests arrive: empty, or one user has already
\* recorded a balance
LedgerBefore ==
    { Stores(<<>>, <<>>, <<>>),
      BalanceTransaction(Stores(<<>>, <<>>, <<>>),
          FinancialRecord(1, "u1", BALANCE_UPDATE, None, None, None, Some(500),
              None, T_x),
          "u1", 500) }

InitConcurrent ==
    /\ \E db \in LedgerBefore :
         /\ records = db.records
         /\ balances = db.balances
         /\ index = db.index
         /\ ncalls = Len(db.records)
         /\ commits = [u \in Users |-> Cardinality({i \in 1..Len(db.records) :
                                           db.records[i].user_id = u})]
    /\ now = 1
    /\ call = NoCall
    /\ sessions \in [1..MaxSessions ->
                        {NewSession(u, b) : u \in Users, b \in BalanceAmounts}]

\* another session's open transaction has written the user's balance row
RowLocked(s) ==
    \E t \in DOMAIN sessions :
        /\ t # s
        /\ sessions[t].pc = "written"
        /\ sessions[t].user_id = sessions[s].user_id

\* db.add(record), then the query of the user's balance row: the query first
\* flushes the INSERT of the event (its id comes from the table's sequence)
\* and then reads the committed row, if there is one
SessionRead(s) ==
    /\ sessions[s].pc = "start"
    /\ sessions' = [sessions EXCEPT
           ![s].pc = "read",
           ![s].id = ncalls + 1,
           ![s].user_balance =
               IF sessions[s].user_id \in DOMAIN balances
               THEN Some(balances[sessions[s].user_id]) ELSE None]
    /\ ncalls' = ncalls + 1
    /\ UNCHANGED <<records, balances, index, now, call, commits>>

\* the flush at db.commit(): UPDATE of the row that was read, or INSERT of a
\* new row when none was read; the INSERT of a key that has been committed
\* meanwhile violates the primary key, the exception leaves the handler and
\* the session's transaction is rolled back
SessionWrite(s) ==
    /\ sessions[s].pc = "read"
    /\ ~RowLocked(s)
    /\ sessions' =
         IF sessions[s].user_balance = None
            /\ sessions[s].user_id \in DOMAIN balances
         THEN [sessions EXCEPT ![s].pc = "failed",
                               ![s].result = Raised("IntegrityError")]
         ELSE [sessions EXCEPT ![s].pc = "written"]
    /\ UNCHANGED <<records, balances, index, now, ncalls, call, commits>>

\* the COMMIT of db.commit(): the event and the balance row become visible
SessionCommit(s) ==
    /\ sessions[s].pc = "written"
    /\ LET user_id == sessions[s].user_id
           record == FinancialRecord(sessions[s].id, user_id, BALANCE_UPDATE,
                         None, None, None, Some(sessions[s].balance), None,
                         T_x)
           db1 == BalanceTransaction(Stores(records, balances, index), record,
                      user_id, sessions[s].balance)
       IN  /\ records' = db1.records
           /\ balances' = db1.balances
           /\ commits' = [commits EXCEPT ![user_id] = @ + 1]
           /\ sessions' = [sessions EXCEPT
                  ![s].pc = "done",
                  ![s].order = commits[user_id] + 1,
                  ![s].result =
                      ProcessedResult(TRUE, "Balance updated",
                          Some([id |-> sessions[s].id,
                                balance |-> sessions[s].balance]), None)]
    /\ UNCHANGED <<index, now, ncalls, call>>

NextConcurrent ==
    \E s \in DOMAIN sessions :
        \/ SessionRead(s)
        \/ SessionWrite(s)
        \/ SessionCommit(s)

SpecConcurrent == InitConcurrent /\ [][NextConcurrent]_vars

\* ------------------------------- questions over a ledger with a history
\* The calls that built the ledger, oldest first: twelve dated commitments of
\* u1 (their ids not in date order, two of them on the same date), one with
\* a past date, one classified by the fallback (no date), one of u2 and a
\* balance update of u1.  The mirroring of each commitment failed.
HistoryDates == <<11, 3, 10, 1, 9, 2, 8, 4, 7, 5, 10, 6>>

DatedCommitment(user_id, amount, date) ==
    [user_id |-> user_id, text |-> T_x,
     classification |->
         ClassifiedInput(FINANCIAL_COMMITMENT, 90,
             Commitment(Some(<<"d">>), Some(amount), Some(date))),
     env |-> [DefaultEnv EXCEPT !.mirror = "fails"]]

History ==
    [n \in 1..Len(HistoryDates) |->
        DatedCommitment("u1", 100 * (2 ^ n), HistoryDates[n])]
    \o << DatedCommitment("u1", 700, 0),
          [user_id |-> "u1", text |-> T_rent15,
           classification |-> classify_and_extract(T_rent15, LLMRaises),
           env |-> [DefaultEnv EXCEPT !.mirror = "fails"]],
          DatedCommitment("u2", 900, 5),
          [user_id |-> "u1", text |-> T_balance,
           classification |-> classify_and_extract(T_balance, LLMRaises),
           env |-> DefaultEnv] >>

\* the stores after the first n calls of the history
RECURSIVE LedgerAfter(_)
LedgerAfter(n) ==
    IF n = 0 THEN Stores(<<>>, <<>>, <<>>)
    ELSE Route(LedgerAfter(n - 1), History[n].user_id, History[n].text,
               History[n].classification, History[n].env, 1).db

\* the calls counted by ncalls are those made after the history
InitUpcoming ==
    /\ LET db == LedgerAfter(Len(History))
       IN  /\ records = db.records
           /\ balances = db.balances
           /\ index = db.index
           /\ commits = [u \in Users |->
                            Cardinality({i \in 1..Len(db.records) :
                                /\ db.records[i].user_id = u
                                /\ db.records[i].input_type = BALANCE_UPDATE})]
    /\ now = 1
    /\ ncalls = 0
    /\ call = NoCall
    /\ sessions = <<>>

NextUpcoming ==
    \/ \E user_id \in Users :
         \E req \in {r \in Requests : r.classification.input_type = QUESTION} :
            ProcessInput(user_id, req)
    \/ Tick

SpecUpcoming == InitUpcoming /\ [][NextUpcoming]_vars

\* ============================================================= properties
CallStep == ncalls' = ncalls + 1
Kind == call.classification.input_type
Data == call.classification.extracted_data

EventsOf(recs, user_id, kind) ==
    {i \in 1..Len(recs) : recs[i].user_id = user_id /\ recs[i].input_type = kind}

Latest(ids) == CHOOSE i \in ids : \A j \in ids : j <= i

\* the amount of the user's most recently persisted BALANCE_UPDATE event
LastBalanceEvent(recs, user_id) ==
    IF EventsOf(recs, user_id, BALANCE_UPDATE) = {} THEN 0
    ELSE recs[Latest(EventsOf(recs, user_id, BALANCE_UPDATE))].balance[1]

CurrentBalanceOf(bal, user_id) == IF user_id \in DOMAIN bal THEN bal[user_id] ELSE 0

\* the old rows are all still there, unchanged
KeepsRows(old, new) ==
    /\ Len(new) >= Len(old)
    /\ \A i \in 1..Len(old) : new[i] = old[i]
AppendsOne(old, new) == KeepsRows(old, new) /\ Len(new) = Len(old) + 1

\* C1: for every user, UserBalance.current_balance (0 without a row) is the
\* amount of the user's most recent persisted BALANCE_UPDATE event (0 if there
\* is none), after any sequence of calls; and no call that is not a balance
\* update changes any balance row.
C1_BalanceReflectsLastBalanceEvent ==
    /\ [](\A u \in Users :
             CurrentBalanceOf(balances, u) = LastBalanceEvent(records, u))
    /\ [][CallStep /\ call'.classification.input_type # BALANCE_UPDATE
             => balances' = balances]_vars

C1_Witness ==
    \E u \in Users :
        LET ev == EventsOf(records, u, BALANCE_UPDATE)
        IN  /\ Cardinality(ev) = 2
            /\ \E i \in ev : records[i].balance[1] # LastBalanceEvent(records, u)
            /\ u \in DOMAIN balances
            /\ balances[u] = LastBalanceEvent(records, u)

C3_MirrorFailureKeepsEvent ==
    (ncalls > 0 /\ Kind = FINANCIAL_COMMITMENT /\ call.env.mirror = "fails") =>
        /\ ~call.result.raised
        /\ call.result.success
        /\ call.result.data # None
        /\ LET id == call.result.data[1].id
           IN  /\ id \in 1..Len(records)
               /\ records[id].id = id
               /\ records[id].user_id = call.user_id
               /\ records[id].input_type = FINANCIAL_COMMITMENT
               /\ records[id].description = Data.description
               /\ records[id].amount = Data.amount
               /\ records[id].raw_input = call.text
               /\ \E n \in 1..Len(get_user_history(records, call.user_id,
                                                   HistoryLimit)) :
                      get_user_history(records, call.user_id, HistoryLimit)[n] = id

C3_Witness ==
    /\ ncalls > 0
    /\ Kind = FINANCIAL_COMMITMENT
    /\ call.env.mirror = "fails"
    /\ call.result.success
    /\ records # <<>>
    /\ records[Len(records)].vector_id = None
    /\ index = <<>>

\* C4: a commitment payload whose amount is not greater than 0 makes
\* process_input raise (no success envelope) and leaves the ledger rows, the
\* balances and the semantic index as they were.
C4_NonPositiveCommitmentRejected ==
    [][(/\ CallStep
        /\ call'.classification.input_type = FINANCIAL_COMMITMENT
        /\ call'.classification.extracted_data.amount # None
        /\ call'.classification.extracted_data.amount[1] <= 0)
       => /\ call'.result.raised
          /\ ~call'.result.success
          /\ records' = records
          /\ balances' = balances
          /\ index' = index]_vars

C4_Witness ==
    /\ ncalls > 0
    /\ call.primary_failed
    /\ Kind = FINANCIAL_COMMITMENT
    /\ Data.amount = Some(0)
    /\ call.result.raised

\* C5: when the primary classifier fails, classify_and_extract returns
\* BALANCE_UPDATE (confidence 0.7) if the lower-cased text contains a balance
\* word, otherwise QUESTION (0.7) if it contains a question word, otherwise
\* FINANCIAL_COMMITMENT (0.6).
C5_FallbackPriority ==
    (ncalls = 1 /\ call.primary_failed) =>
        LET t == lower(call.text)
            c == call.classification
            balanceWord == \E w \in BalanceWords : Contains(t, w)
            questionWord == \E w \in QuestionWords : Contains(t, w)
        IN  /\ c.input_type \in InputType
            /\ balanceWord => c.input_type = BALANCE_UPDATE /\ c.confidence = 70
            /\ (~balanceWord /\ questionWord) =>
                   c.input_type = QUESTION /\ c.confidence = 70
            /\ (~balanceWord /\ ~questionWord) =>
                   c.input_type = FINANCIAL_COMMITMENT /\ c.confidence = 60

C5_Witness ==
    /\ ncalls = 1
    /\ call.primary_failed
    /\ \E w \in BalanceWords : Contains(lower(call.text), w)
    /\ \E w \in QuestionWords : Contains(lower(call.text), w)
    /\ call.classification.input_type = BALANCE_UPDATE

\* the message of the handler of each kind
HandlerMessage(kind) ==
    IF kind = FINANCIAL_COMMITMENT THEN "Added commitment"
    ELSE IF kind = BALANCE_UPDATE THEN "Balance updated"
    ELSE "Question answered"

\* C6: process_input runs the one handler of the classified kind: a call that
\* returns success has appended exactly one event, of the classified kind and
\* of the calling user, with that handler's message; no call removes or
\* changes an existing event; and a kind that is none of the three gets an
\* envelope with success=false and "Unable to classify input", nothing stored.
C6_ExactlyOneHandler ==
    /\ [][CallStep =>
            /\ KeepsRows(records, records')
            /\ call'.result.success =>
                 /\ AppendsOne(records, records')
                 /\ records'[Len(records')].input_type =
                        call'.classification.input_type
                 /\ records'[Len(records')].user_id = call'.user_id
                 /\ call'.result.message =
                        HandlerMessage(call'.classification.input_type)]_vars
    /\ [](\A u \in Users, kind \in {"OTHER", "commitment"} :
             LET db == Stores(records, balances, index)
                 out == Route(db, u, T_x, ClassifiedInput(kind, 50, NoData),
                              DefaultEnv, now)
             IN  /\ ~out.result.raised
                 /\ ~out.result.success
                 /\ out.result.message = "Unable to classify input"
                 /\ out.result.data = None
                 /\ out.db = db)

C6_Witness ==
    /\ ncalls = 2
    /\ Kind = QUESTION
    /\ Data.amount # None
    /\ call.result.success
    /\ Len(records) = 2
    /\ records[1].input_type = BALANCE_UPDATE
    /\ records[2].input_type = QUESTION
    /\ records[2].user_id = call.user_id

\* C7: in the question handler, whatever the semantic index query and the
\* advice backend do (each may raise), a valid question whose ledger write
\* goes through returns success=true with an advice, reports a failed query
\* as 0 advisory commitments, and appends exactly one QUESTION event holding
\* the question text.
C7_AdvisoryFailuresContained ==
    [][(/\ CallStep
        /\ call'.classification.input_type = QUESTION
        /\ call'.classification.extracted_data.question # None
        /\ call'.env.storage = "ok")
       => /\ ~call'.result.raised
          /\ call'.result.success
          /\ call'.result.advice # None
          /\ call'.env.query = None =>
                 call'.result.data[1].relevant_commitments_from_vector_db = 0
          /\ AppendsOne(records, records')
          /\ records'[Len(records')].input_type = QUESTION
          /\ records'[Len(records')].user_id = call'.user_id
          /\ records'[Len(records')].question_text =
                 call'.classification.extracted_data.question
          /\ balances' = balances
          /\ index' = index]_vars

C7_Witness ==
    /\ ncalls > 0
    /\ Kind = QUESTION
    /\ call.env.query = None
    /\ call.env.advice = "fails"
    /\ call.result.success
    /\ call.result.advice # None
    /\ records[Len(records)].input_type = QUESTION

\* C8: when the advice backend fails, the fallback advice recommends waiting
\* exactly when a target amount is given (also a target of 0) and exceeds
\* available = current_balance - sum(upcoming amounts), and otherwise reports
\* the purchase as affordable.
C8_FallbackAdviceRule ==
    (ncalls > 0 /\ Kind = QUESTION /\ call.result.success
        /\ call.env.advice = "fails") =>
        LET advice == call.result.advice[1]
            available == call.result.data[1].current_balance
                         - SumAmounts(UpcomingList(records, call.env.upcoming))
        IN  /\ advice.available_funds = available
            /\ advice.verdict \in {"wait", "affordable"}
            /\ advice.verdict = "wait" <=>
                   (Data.target_amount # None /\ Data.target_amount[1] > available)

\* C9: a question of a user answers with current_balance equal to the amount
\* of that user's latest persisted balance update (0 if there is none), and
\* on the fallback advice path a target above that balance gets the advice
\* to wait.
C9_QuestionSeesLastBalance ==
    (ncalls > 0 /\ Kind = QUESTION /\ call.result.success) =>
        LET b == call.result.data[1].current_balance
        IN  /\ b = LastBalanceEvent(records, call.user_id)
            /\ (call.env.advice = "fails" /\ Data.target_amount # None
                   /\ Data.target_amount[1] > b)
               => call.result.advice[1].verdict = "wait"

C9_Witness ==
    /\ ncalls = 2
    /\ Kind = QUESTION
    /\ call.result.success
    /\ call.env.advice = "fails"
    /\ records[1].input_type = BALANCE_UPDATE
    /\ records[1].user_id = call.user_id
    /\ records[1].balance = Some(2000)
    /\ Data.target_amount = Some(3000)
    /\ call.result.data[1].current_balance = 2000
    /\ call.result.advice[1].verdict = "wait"

\* every answer the semantic index could give to a query: a failure, or any
\* entries at all
AnyQueryResult(idx) ==
    {None} \cup {Some(m) : m \in {x \in SUBSET DOMAIN idx : Cardinality(x) <= TopK}}

\* C10: a question answered from the same ledger state with any other answer
\* of the semantic index (any entries, none, a failure) gives the same
\* current_balance, the same upcoming-commitment count, the same advice
\* computed from the same numbers, and the same stores.
C10_SemanticIndexAdvisoryOnly ==
    [][(/\ CallStep
        /\ call'.classification.input_type = QUESTION
        /\ call'.result.success)
       => \A q \in AnyQueryResult(index) :
            LET other == _handle_question(Stores(records, balances, index),
                             call'.user_id, call'.text,
                             call'.classification.extracted_data,
                             [call'.env EXCEPT !.query = q], now)
            IN  /\ other.result.success
                /\ other.result.data[1].current_balance =
                       call'.result.data[1].current_balance
                /\ other.result.data[1].upcoming_commitments_count =
                       call'.result.data[1].upcoming_commitments_count
                /\ other.result.advice = call'.result.advice
                /\ other.db = Stores(records', balances', index')]_vars

C10_Witness ==
    /\ ncalls > 0
    /\ Kind = QUESTION
    /\ call.result.success
    /\ call.result.data[1].relevant_commitments_from_vector_db >= 1
    /\ call.result.data[1].upcoming_commitments_count >= 1
    /\ call.env.advice = "fails"

\* the session's request is over: it answered or it raised
Finished(s) == sessions[s].pc \in {"done", "failed"}

\* the BALANCE_UPDATE event the session's request persisted
EventOfSession(s) ==
    {i \in EventsOf(records, sessions[s].user_id, BALANCE_UPDATE) :
        records[i].id = sessions[s].id}

\* C11: once two concurrent BALANCE_UPDATE requests of the same user are
\* over, whatever the interleaving of their read, write and commit steps
\* (the user having a balance row before or not): both have completed, the
\* user's current_balance is the amount of the request that committed last,
\* the user has a balance row, and each request has left its own
\* BALANCE_UPDATE event.
C11_ConcurrentBalanceUpdatesLastCommitWins ==
    \A s, t \in DOMAIN sessions :
        (/\ s # t
         /\ sessions[s].user_id = sessions[t].user_id
         /\ Finished(s) /\ Finished(t)
         /\ sessions[s].order <= sessions[t].order)
        => /\ sessions[s].pc = "done" /\ sessions[t].pc = "done"
           /\ sessions[s].result.success /\ sessions[t].result.success
           /\ sessions[t].user_id \in DOMAIN balances
           /\ balances[sessions[t].user_id] = sessions[t].balance
           /\ Cardinality(EventOfSession(s)) = 1
           /\ Cardinality(EventOfSession(t)) = 1
           /\ EventOfSession(s) # EventOfSession(t)

\* the text holds a numeric substring
HasNumber(text) == \E i \in 1..Len(text) : IsDigit(text[i])

\* the last numeric substring of a text without "." and ",": its last
\* maximal run of digits, read as a whole number (in hundredths)
LastNumber(text) ==
    LET j == CHOOSE k \in 1..Len(text) :
                 IsDigit(text[k]) /\ \A l \in k+1..Len(text) : ~IsDigit(text[l])
        i == CHOOSE k \in 1..j :
                 /\ \A l \in k..j : IsDigit(text[l])
                 /\ k = 1 \/ ~IsDigit(text[k - 1])
    IN  100 * DigitsValue(SubSeq(text, i, j))

\* the fallback classifier has classified the text as QUESTION
FallbackQuestion == ncalls = 1 /\ call.primary_failed /\ Kind = QUESTION

\* C12, as stated: a text the fallback classifies as QUESTION carries
\* target_amount equal to the extracted amount when it holds a numeric
\* substring, and no target_amount (absent, not 0) when it holds none.
C12_FallbackQuestionTargetAbsent ==
    FallbackQuestion =>
        /\ HasNumber(call.text) => Data.target_amount = Some(LastNumber(call.text))
        /\ ~HasNumber(call.text) => Data.target_amount = None

\* C12, amended: a text the fallback classifies as QUESTION carries the whole
\* text as question and target_amount equal to the extracted amount when it
\* holds a numeric substring, and target_amount 0.0 (present, not absent)
\* when it holds none.
C12_FallbackQuestionTargetZero ==
    FallbackQuestion =>
        /\ Data.question = Some(call.text)
        /\ HasNumber(call.text) => Data.target_amount = Some(LastNumber(call.text))
        /\ ~HasNumber(call.text) => Data.target_amount = Some(0)

C12_Witness ==
    /\ FallbackQuestion
    /\ ~HasNumber(call.text)
    /\ Data.target_amount = Some(0)

\* the user's COMMITMENT events dated at or after time t
DatedFrom(recs, user_id, t) ==
    {i \in EventsOf(recs, user_id, FINANCIAL_COMMITMENT) :
        recs[i].commitment_date # None /\ recs[i].commitment_date[1] >= t}

RECURSIVE AmountsOf(_, _)
AmountsOf(recs, ids) ==
    IF ids = {} THEN 0
    ELSE LET i == CHOOSE j \in ids : TRUE
         IN  recs[i].amount[1] + AmountsOf(recs, ids \ {i})

\* C13: the rows a question's affordability arithmetic uses are the asking
\* user's COMMITMENT events dated at or after the current time, the 10
\* earliest of them when there are more, in ascending date order; no other
\* row (another user's, another kind, a past date, no date) adds to the sum,
\* and upcoming_commitments_count is the number of rows used.
C13_UpcomingAreTenEarliest ==
    [][(CallStep /\ call'.classification.input_type = QUESTION
          /\ call'.result.success) =>
        LET used == call'.env.upcoming
            rows == {used[n] : n \in DOMAIN used}
            dated == DatedFrom(records, call'.user_id, now)
            k == IF Cardinality(dated) < 10 THEN Cardinality(dated) ELSE 10
            advice == call'.result.advice[1]
        IN  /\ Len(used) = k
            /\ Cardinality(rows) = k
            /\ rows \subseteq dated
            /\ \A n \in 1..(Len(used) - 1) :
                   records[used[n]].commitment_date[1]
                       <= records[used[n + 1]].commitment_date[1]
            /\ \A i \in rows, j \in dated \ rows :
                   records[i].commitment_date[1] <= records[j].commitment_date[1]
            /\ advice.total_commitments = AmountsOf(records, rows)
            /\ advice.available_funds
                   = advice.current_balance - AmountsOf(records, rows)
            /\ call'.result.data[1].upcoming_commitments_count = k]_vars

C13_Witness ==
    /\ Kind = QUESTION
    /\ call.result.success
    /\ call.user_id = "u1"
    /\ Cardinality(DatedFrom(records, "u1", now)) > 10
    /\ Cardinality(EventsOf(records, "u1", FINANCIAL_COMMITMENT))
           > Cardinality(DatedFrom(records, "u1", 0))
    /\ EventsOf(records, "u2", FINANCIAL_COMMITMENT) # {}
    /\ call.result.data[1].upcoming_commitments_count = 10
    /\ Len(call.env.upcoming) = 10
    /\ call.result.advice[1].total_commitments
           = AmountsOf(records, {call.env.upcoming[n] : n \in 1..10})

\* the row's back-reference is the key of its own user id and event id, and
\* the index holds an entry under it
BackReferenceSound(r) ==
    /\ r.input_type = FINANCIAL_COMMITMENT
    /\ r.vector_id = Some(<<r.user_id, r.id>>)
    /\ <<r.user_id, r.id>> \in DOMAIN index

====
